---- MODULE Spec2Model ----
(***************************************************************************)
(* A model of langsmith_billing_report.py: the row builders                *)
(* (build_workspace_rows, build_project_rows, build_overview_rows), the    *)
(* per-organization pipeline fetch_org_rows and the fan-out / fan-in,      *)
(* zero filtering and deduplication of main.                               *)
(*                                                                         *)
(* Strings are sequences of character codes, so that Python's comparison   *)
(* of str values (code point order) and the f-string placeholders are      *)
(* computed, not assumed.  A value that Python's `or` treats as false      *)
(* (None, a missing key, "") is the empty sequence.                        *)
(***************************************************************************)
EXTENDS Integers, Sequences, FiniteSets, TLC

VARIABLES
    \* one call of build_workspace_rows / build_project_rows
    builder,          \* "workspace" or "project": which builder runs
    granular_usage,   \* the argument: the list of usage records
    workspace_name,   \* build_project_rows' argument workspace_name
    idx,              \* number of records the for loop has consumed
    aggregated,       \* the dict, as the list of its entries in insertion order
    bpc,              \* "loop", "returned" or "raised" (TypeError)
    built,            \* the returned list of rows
    \* the command line
    mode,             \* --mode: "granular" or "overview"
    level,            \* --level: "workspace" or "project"
    \* one call of fetch_org_rows, one outbound call at a time
    direct,           \* TRUE: called by main itself (len(orgs) == 1); FALSE: a pool task
    org_entry,        \* the entry of orgs: [org_id, org_name]
    cur_org_name,     \* fetch_org_rows' org_name, supplied or resolved
    opc,              \* where the pipeline is
    inflight,         \* the outbound calls awaiting their response
    calls,            \* every outbound call issued, in order
    responses,        \* the responses received, by kind of call
    workspace_map,    \* the dict id -> display_name, in insertion order
    wi,               \* the per-workspace loop's index i
    org_rows,         \* fetch_org_rows' local all_rows (project level)
    returned,         \* the rows fetch_org_rows returned
    \* the thread pool of main
    orgs,             \* the organization list
    workers,          \* --workers
    status,           \* each task: "new", "queued", "running", "finished"
    outcome,          \* each finished future's result or exception
    collected,        \* the tasks as_completed has yielded
    \* main
    mpc,              \* where main is
    all_rows,         \* main's all_rows
    failures,         \* the "[org] Failed" lines printed, in order
    removed,          \* the count of the "Removed n duplicate row(s)" line
    report            \* the rows handed to print_table / write_csv

buildVars == <<builder, granular_usage, workspace_name, idx, aggregated, bpc, built>>
argVars == <<mode, level>>
orgVars == <<direct, org_entry, cur_org_name, opc, inflight, calls, responses, workspace_map,
             wi, org_rows, returned>>
poolVars == <<orgs, workers, status, outcome, collected>>
mainVars == <<mpc, all_rows, failures, removed, report>>

vars == <<buildVars, argVars, orgVars, poolVars, mainVars>>

----------------------------------------------------------------------------
(* Bounds of the model *)

\* longest list of usage records handed to one builder call
MaxRecs == 3
\* longest workspace listing of one organization
MaxWorkspaces == 2
\* most entries of the organization list
MaxOrgs == 3
\* largest --workers
MaxWorkers == 2

----------------------------------------------------------------------------
(* Strings *)

S_empty == <<>>
S_A == <<65>>
S_B == <<66>>
S_X == <<88>>
S_Y == <<89>>
S_1 == <<49>>
S_2 == <<50>>
S_o == <<111>>
S_m == <<109>>
\* "unknown"
S_unknown == <<117, 110, 107, 110, 111, 119, 110>>

\* f"[unknown workspace: {ws_id}]"
UnknownWorkspace(ws_id) ==
    <<91>> \o S_unknown \o <<32, 119, 111, 114, 107, 115, 112, 97, 99, 101, 58, 32>>
        \o ws_id \o <<93>>

\* f"[unknown project: {proj_id}]"
UnknownProject(proj_id) ==
    <<91>> \o S_unknown \o <<32, 112, 114, 111, 106, 101, 99, 116, 58, 32>>
        \o proj_id \o <<93>>

\* Python's  a or b  on strings
OrElse(a, b) == IF a = <<>> THEN b ELSE a

\* Python's  a < b  on str: code point order
RECURSIVE StrLess(_, _)
StrLess(a, b) ==
    IF b = <<>> THEN FALSE
    ELSE IF a = <<>> THEN TRUE
    ELSE IF Head(a) # Head(b) THEN Head(a) < Head(b)
    ELSE StrLess(Tail(a), Tail(b))

\* Python's  x < y  on tuples of str of equal length
RECURSIVE TupleLess(_, _)
TupleLess(x, y) ==
    IF x = <<>> \/ y = <<>> THEN FALSE
    ELSE IF Head(x) # Head(y) THEN StrLess(Head(x), Head(y))
    ELSE TupleLess(Tail(x), Tail(y))

\* list.sort on (key, row) pairs: insertion after every element whose key is
\* not greater, which is the stable order Python's sort guarantees
RECURSIVE SortPairs(_)
SortPairs(pairs) ==
    IF pairs = <<>> THEN <<>>
    ELSE LET n == Len(pairs)
             front == SortPairs(SubSeq(pairs, 1, n - 1))
             x == pairs[n]
             after == {j \in 1..Len(front) : TupleLess(x.k, front[j].k)}
             pos == IF after = {} THEN Len(front) + 1
                    ELSE CHOOSE j \in after : \A k \in after : j <= k
         IN SubSeq(front, 1, pos - 1) \o <<x>> \o SubSeq(front, pos, Len(front))

\* the key functions: of the sorted() of build_workspace_rows, of
\* build_project_rows and of build_overview_rows, and of main's all_rows.sort,
\* where r.get(field, "") of a field the row lacks is ""
WorkspaceKey(r) == <<r.workspace>>
ProjectKey(r) == <<r.workspace, r.project>>
OverviewKey(r) == <<r.workspace, r.metric>>
MergeKey(r) == <<r.org, r.workspace, r.project, r.metric>>

SortKey(r, by) ==
    IF by = "workspace" THEN WorkspaceKey(r)
    ELSE IF by = "project" THEN ProjectKey(r)
    ELSE IF by = "overview" THEN OverviewKey(r)
    ELSE MergeKey(r)

\* sorted(rows, key=...), by one of the four keys
Sorted(rows, by) ==
    LET done == SortPairs([j \in 1..Len(rows) |-> [k |-> SortKey(rows[j], by), r |-> rows[j]]])
    IN [j \in 1..Len(rows) |-> done[j].r]

----------------------------------------------------------------------------
(* Values *)

\* a number, None, and a key that the dict does not hold
Num(n) == [t |-> "num", n |-> n]
None == [t |-> "none", n |-> 0]
Missing == [t |-> "missing", n |-> 0]

\* dict.get(field, default)
Get(v, default) == IF v = Missing THEN default ELSE v

\* bool(v) of a number or None
Truthy(v) == v.t = "num" /\ v.n # 0

\* a += b on numbers; TypeError when either operand is None
TypeError == [t |-> "TypeError", n |-> 0]
Add(a, b) == IF a.t = "num" /\ b.t = "num" THEN Num(a.n + b.n) ELSE TypeError

\* a report row; a field the dict does not hold is <<>> (a label) or Missing
Row(org, ws, proj, metric, traces, value) ==
    [org |-> org, workspace |-> ws, project |-> proj, metric |-> metric,
     traces |-> traces, value |-> value]

\* a usage record: dimensions and the measure
Record(ws_id, ws_name, proj_id, proj_name, traces) ==
    [workspace_id |-> ws_id, workspace_name |-> ws_name,
     project_id |-> proj_id, project_name |-> proj_name, traces |-> traces]

----------------------------------------------------------------------------
(* Row builders *)

Find(agg, key) == {j \in 1..Len(agg) : agg[j].key = key}

\* build_workspace_rows with the label taken from the latest record of the key
WorkspaceStepLastWins(agg, record) ==
    LET ws_id == OrElse(record.workspace_id, S_empty)
        hit == Find(agg, ws_id)
        traces == Get(record.traces, Num(0))
        ws_name == OrElse(record.workspace_name, UnknownWorkspace(ws_id))
    IN IF hit = {}
       THEN [agg |-> Append(agg, [key |-> ws_id, ws_name |-> ws_name,
                                   proj_name |-> S_empty, traces |-> traces]),
             raised |-> FALSE]
       ELSE LET j == CHOOSE j \in hit : TRUE
                sum == Add(agg[j].traces, traces)
            IN IF sum = TypeError
               THEN [agg |-> agg, raised |-> TRUE]
               ELSE [agg |-> [agg EXCEPT ![j].traces = sum, ![j].ws_name = ws_name],
                     raised |-> FALSE]

\* the body of the for loop of build_workspace_rows; raised is set by a
\* TypeError of  entry[1] += record.get("traces", 0)
WorkspaceStep(agg, record) ==
    LET ws_id == OrElse(record.workspace_id, S_empty)
        hit == Find(agg, ws_id)
        traces == Get(record.traces, Num(0))
    IN IF hit = {}
       THEN [agg |-> Append(agg, [key |-> ws_id,
                                   ws_name |-> OrElse(record.workspace_name,
                                                      UnknownWorkspace(ws_id)),
                                   proj_name |-> S_empty,
                                   traces |-> traces]),
             raised |-> FALSE]
       ELSE LET j == CHOOSE j \in hit : TRUE
                sum == Add(agg[j].traces, traces)
            IN IF sum = TypeError
               THEN [agg |-> agg, raised |-> TRUE]
               ELSE [agg |-> [agg EXCEPT ![j].traces = sum], raised |-> FALSE]

\* the body of the for loop of build_project_rows
ProjectStep(agg, record, ws_name) ==
    LET proj_id == OrElse(record.project_id, S_empty)
        key == <<ws_name, proj_id>>
        hit == Find(agg, key)
        traces == Get(record.traces, Num(0))
    IN IF hit = {}
       THEN [agg |-> Append(agg, [key |-> key,
                                   ws_name |-> ws_name,
                                   proj_name |-> OrElse(record.project_name,
                                                        UnknownProject(proj_id)),
                                   traces |-> traces]),
             raised |-> FALSE]
       ELSE LET j == CHOOSE j \in hit : TRUE
                sum == Add(agg[j].traces, traces)
            IN IF sum = TypeError
               THEN [agg |-> agg, raised |-> TRUE]
               ELSE [agg |-> [agg EXCEPT ![j].traces = sum], raised |-> FALSE]


\* the return statement of build_workspace_rows
WorkspaceRows(agg, org_name) ==
    Sorted([j \in 1..Len(agg) |->
                Row(org_name, agg[j].ws_name, S_empty, S_empty, agg[j].traces, Missing)],
           "workspace")

\* the return statement of build_project_rows
ProjectRows(agg, org_name) ==
    Sorted([j \in 1..Len(agg) |->
                Row(org_name, agg[j].ws_name, agg[j].proj_name, S_empty,
                    agg[j].traces, Missing)],
           "project")

\* build_workspace_rows(granular_usage, org_name): [raised, rows]
RECURSIVE WorkspaceFold(_, _)
WorkspaceFold(agg, recs) ==
    IF recs = <<>> THEN [agg |-> agg, raised |-> FALSE]
    ELSE LET step == WorkspaceStep(agg, Head(recs))
         IN IF step.raised THEN step ELSE WorkspaceFold(step.agg, Tail(recs))

build_workspace_rows(recs, org_name) ==
    LET end == WorkspaceFold(<<>>, recs)
    IN IF end.raised THEN [raised |-> TRUE, rows |-> <<>>]
       ELSE [raised |-> FALSE, rows |-> WorkspaceRows(end.agg, org_name)]

\* build_project_rows(granular_usage, org_name, workspace_name): [raised, rows]
RECURSIVE ProjectFold(_, _, _)
ProjectFold(agg, recs, ws_name) ==
    IF recs = <<>> THEN [agg |-> agg, raised |-> FALSE]
    ELSE LET step == ProjectStep(agg, Head(recs), ws_name)
         IN IF step.raised THEN step ELSE ProjectFold(step.agg, Tail(recs), ws_name)

build_project_rows(recs, org_name, ws_name) ==
    LET end == ProjectFold(<<>>, recs, ws_name)
    IN IF end.raised THEN [raised |-> TRUE, rows |-> <<>>]
       ELSE [raised |-> FALSE, rows |-> ProjectRows(end.agg, org_name)]

\* aggregated[key] = aggregated.get(key, 0.0) + (value or 0.0), for one item of
\* the groups dict.  A float is its number of halves, so that int() truncates.
OverviewAdd(agg, ws_id, metric, value) ==
    LET key == <<ws_id, metric>>
        hit == Find(agg, key)
        v == IF Truthy(value) THEN value.n ELSE 0
    IN IF hit = {}
       THEN Append(agg, [key |-> key, halves |-> 0 + v])
       ELSE LET j == CHOOSE j \in hit : TRUE
            IN [agg EXCEPT ![j].halves = agg[j].halves + v]

\* for ws_id, value in groups.items(): ...
RECURSIVE OverviewGroups(_, _, _)
OverviewGroups(agg, metric, groups) ==
    IF groups = <<>> THEN agg
    ELSE OverviewGroups(OverviewAdd(agg, Head(groups).ws_id, metric, Head(groups).value),
                        metric, Tail(groups))

\* for item in billing_usage: ...
RECURSIVE OverviewFold(_, _)
OverviewFold(agg, billing_usage) ==
    IF billing_usage = <<>> THEN agg
    ELSE OverviewFold(
             OverviewGroups(agg, OrElse(Head(billing_usage).billable_metric_name, S_unknown),
                            Head(billing_usage).groups),
             Tail(billing_usage))

\* workspace_map.get(ws_id)
MapGet(wmap, ws_id) ==
    LET hit == {j \in 1..Len(wmap) : wmap[j].id = ws_id}
    IN IF hit = {} THEN S_empty ELSE wmap[CHOOSE j \in hit : TRUE].display_name

\* int(value) of a non-negative float held in halves
IntOf(halves) == halves \div 2


build_overview_rows(billing_usage, org_name, wmap) ==
    LET agg == OverviewFold(<<>>, billing_usage)
    IN Sorted([j \in 1..Len(agg) |->
                   Row(org_name,
                       OrElse(MapGet(wmap, agg[j].key[1]), UnknownWorkspace(agg[j].key[1])),
                       S_empty, agg[j].key[2], Missing, Num(IntOf(agg[j].halves)))],
              "overview")

----------------------------------------------------------------------------
(* fetch_org_rows *)

\* a response of the remote API: a parsed body, or an exception of make_request
Ok(body) == [ok |-> TRUE, body |-> body]
Fail(body) == [ok |-> FALSE, body |-> body]

\* fetch_org_info: the display name, or failing that the resolved id
ResolveName(org_id, body) == OrElse(body.display_name, OrElse(body.id, org_id))

\* {str(ws["id"]): ws["display_name"] for ws in workspaces}: a repeated id keeps
\* its first position and takes the last name
RECURSIVE WorkspaceMap(_)
WorkspaceMap(workspaces) ==
    IF workspaces = <<>> THEN <<>>
    ELSE LET n == Len(workspaces)
             front == WorkspaceMap(SubSeq(workspaces, 1, n - 1))
             ws == workspaces[n]
             hit == {j \in 1..Len(front) : front[j].id = ws.id}
         IN IF hit = {} THEN Append(front, [id |-> ws.id, display_name |-> ws.display_name])
            ELSE [front EXCEPT ![CHOOSE j \in hit : TRUE].display_name = ws.display_name]

WorkspaceIds(wmap) == [j \in 1..Len(wmap) |-> wmap[j].id]

\* a task's outcome: the returned rows, or the exception it raised
Returned(rows) == [ok |-> TRUE, rows |-> rows]
Raised == [ok |-> FALSE, rows |-> <<>>]

\* the per-workspace loop of the project level, from workspace i on
RECURSIVE ProjectLoop(_, _, _, _, _)
ProjectLoop(i, rows, org_name, wmap, usage) ==
    IF i > Len(wmap) THEN Returned(Sorted(rows, "project"))
    ELSE IF ~usage[i].ok THEN Raised
    ELSE LET b == build_project_rows(usage[i].body, org_name, wmap[i].display_name)
         IN IF b.raised THEN Raised
            ELSE ProjectLoop(i + 1, rows \o b.rows, org_name, wmap, usage)

\* fetch_org_rows after the workspace listing returned
AfterListing(org_name, m, l, wmap, resp) ==
    IF wmap = <<>> THEN Returned(<<>>)
    ELSE IF m = "overview"
    THEN IF ~resp.billing.ok THEN Raised
         ELSE Returned(build_overview_rows(resp.billing.body, org_name, wmap))
    ELSE IF l = "project"
    THEN ProjectLoop(1, <<>>, org_name, wmap, resp.usage)
    ELSE IF ~resp.usage[1].ok THEN Raised
         ELSE LET b == build_workspace_rows(resp.usage[1].body, org_name)
              IN IF b.raised THEN Raised
                 ELSE Returned(Sorted(b.rows, "workspace"))

\* fetch_org_rows(..., org_id, org_name, ..., mode, level), run against the
\* responses resp of the remote API
fetch_org_rows(org, m, l, resp) ==
    IF org.org_name = S_empty /\ ~resp.identity.ok THEN Raised
    ELSE LET org_name == IF org.org_name = S_empty
                         THEN ResolveName(org.org_id, resp.identity.body)
                         ELSE org.org_name
         IN IF ~resp.listing.ok THEN Raised
            ELSE AfterListing(org_name, m, l, WorkspaceMap(resp.listing.body), resp)

----------------------------------------------------------------------------
(* One call of a row builder, one loop iteration at a time *)

SeqsUpTo(S, n) == UNION {[1..k -> S] : k \in 0..n}

\* what the dimensions and the measure of a record handed to a builder may be
BuildIds == {S_empty, S_1}
BuildNames == {S_empty, S_A, S_B}
BuildTraces == {Missing, None, Num(1)}

BuildRecords(b) ==
    IF b = "workspace"
    THEN {Record(id, name, S_empty, S_empty, tr) :
              id \in BuildIds, name \in BuildNames, tr \in BuildTraces}
    ELSE {Record(S_empty, S_empty, id, name, tr) :
              id \in BuildIds, name \in BuildNames, tr \in BuildTraces}

\* the parts of the state a specification does not run
BuildIdle ==
    /\ builder = "workspace" /\ granular_usage = <<>> /\ workspace_name = S_empty
    /\ idx = 0 /\ aggregated = <<>> /\ bpc = "idle" /\ built = <<>>

OrgIdle ==
    /\ direct = TRUE /\ org_entry = [org_id |-> S_empty, org_name |-> S_empty]
    /\ cur_org_name = S_empty /\ opc = "idle" /\ inflight = {} /\ calls = <<>>
    /\ responses = <<>> /\ workspace_map = <<>> /\ wi = 0 /\ org_rows = <<>>
    /\ returned = <<>>

PoolIdle ==
    /\ orgs = <<>> /\ workers = 0 /\ status = <<>> /\ outcome = <<>> /\ collected = {}

MainIdle ==
    /\ mpc = "idle" /\ all_rows = <<>> /\ failures = <<>> /\ removed = 0 /\ report = <<>>

BuildStart ==
    /\ builder \in {"workspace", "project"}
    /\ granular_usage \in SeqsUpTo(BuildRecords(builder), MaxRecs)
    /\ workspace_name = IF builder = "project" THEN S_A ELSE S_empty
    /\ idx = 0
    /\ aggregated = <<>>
    /\ bpc = "loop"
    /\ built = <<>>

BuildInit ==
    /\ BuildStart
    /\ mode = "granular" /\ level = builder
    /\ OrgIdle /\ PoolIdle /\ MainIdle

\* for record in granular_usage: ...
BuildLoop ==
    /\ bpc = "loop"
    /\ idx < Len(granular_usage)
    /\ LET record == granular_usage[idx + 1]
           step == IF builder = "workspace"
                   THEN WorkspaceStep(aggregated, record)
                   ELSE ProjectStep(aggregated, record, workspace_name)
       IN IF step.raised
          THEN /\ bpc' = "raised"
               /\ UNCHANGED <<idx, aggregated>>
          ELSE /\ aggregated' = step.agg
               /\ idx' = idx + 1
               /\ UNCHANGED bpc
    /\ UNCHANGED <<builder, granular_usage, workspace_name, built>>
    /\ UNCHANGED <<argVars, orgVars, poolVars, mainVars>>

\* return sorted(...)
BuildReturn ==
    /\ bpc = "loop"
    /\ idx = Len(granular_usage)
    /\ built' = IF builder = "workspace"
                THEN WorkspaceRows(aggregated, S_X)
                ELSE ProjectRows(aggregated, S_X)
    /\ bpc' = "returned"
    /\ UNCHANGED <<builder, granular_usage, workspace_name, idx, aggregated>>
    /\ UNCHANGED <<argVars, orgVars, poolVars, mainVars>>

BuildNext == BuildLoop \/ BuildReturn

SpecBuild == BuildInit /\ [][BuildNext]_vars

----------------------------------------------------------------------------
(* main: zero filtering and deduplication *)

\* r.get(value_field, 0)
ValueOf(r, m) == IF m = "overview" THEN Get(r.value, Num(0)) ELSE Get(r.traces, Num(0))

\* [r for r in all_rows if r.get(value_field, 0)]
DropZero(rows, m) == SelectSeq(rows, LAMBDA r : Truthy(ValueOf(r, m)))

\* dedup_key comparing whole rows, the value included
dedup_key_by_value(r, m, l) ==
    IF m = "overview" THEN <<r.org, r.workspace, r.metric, r.value>>
    ELSE IF l = "project" THEN <<r.org, r.workspace, r.project, r.traces>>
    ELSE <<r.org, r.workspace, r.traces>>

dedup_key(r, m, l) ==
    IF m = "overview" THEN <<r.org, r.workspace, r.metric>>
    ELSE IF l = "project" THEN <<r.org, r.workspace, r.project>>
    ELSE <<r.org, r.workspace>>

\* the seen / deduped loop: the first row of every key, in order
RECURSIVE Deduped(_, _, _)
Deduped(rows, m, l) ==
    IF rows = <<>> THEN <<>>
    ELSE LET n == Len(rows)
             front == Deduped(SubSeq(rows, 1, n - 1), m, l)
             seen == {dedup_key(rows[j], m, l) : j \in 1..(n - 1)}
         IN IF dedup_key(rows[n], m, l) \notin seen THEN Append(front, rows[n]) ELSE front


\* all_rows = [r for r in all_rows if ...]; if not all_rows: return
Filter ==
    /\ mpc = "filter"
    /\ all_rows' = DropZero(all_rows, mode)
    /\ mpc' = IF DropZero(all_rows, mode) = <<>> THEN "nousage" ELSE "dedup"
    /\ UNCHANGED <<failures, removed, report>>
    /\ UNCHANGED <<buildVars, argVars, orgVars, poolVars>>

\* the deduplication and the hand-over to print_table / write_csv
Dedup ==
    /\ mpc = "dedup"
    /\ all_rows' = Deduped(all_rows, mode, level)
    /\ removed' = Len(all_rows) - Len(Deduped(all_rows, mode, level))
    /\ report' = Deduped(all_rows, mode, level)
    /\ mpc' = "output"
    /\ UNCHANGED failures
    /\ UNCHANGED <<buildVars, argVars, orgVars, poolVars>>

----------------------------------------------------------------------------
(* The remote API: what each call may answer *)

NoIdentity == [id |-> S_empty, display_name |-> S_empty]

IdentityResponses ==
    {Fail(NoIdentity)} \cup
    {Ok([id |-> i, display_name |-> n]) : i \in {S_o}, n \in {S_Y, S_empty}} \cup
    {Ok(NoIdentity)}

Workspaces ==
    {[id |-> S_1, display_name |-> S_A],
     [id |-> S_2, display_name |-> S_A],
     [id |-> S_2, display_name |-> S_B]}

ListingResponses ==
    {Fail(<<>>)} \cup {Ok(ws) : ws \in SeqsUpTo(Workspaces, MaxWorkspaces)}

\* group_by=workspace: time buckets of the workspaces asked for, under the
\* names the listing gave them
WsRecords(wmap) ==
    {Record(wmap[j].id, wmap[j].display_name, S_empty, S_empty, tr) :
         j \in 1..Len(wmap), tr \in {Num(0), Num(1), None}}

WsUsageResponses(wmap) == {Fail(<<>>)} \cup {Ok(u) : u \in SeqsUpTo(WsRecords(wmap), 2)}

\* group_by=project
Proj(id, name, tr) == Record(S_empty, S_empty, id, name, tr)

ProjUsageResponses ==
    {Fail(<<>>),
     Ok(<<>>),
     Ok(<<Proj(S_1, S_A, Num(1))>>),
     Ok(<<Proj(S_1, S_A, Num(1)), Proj(S_1, S_empty, Num(2))>>),
     Ok(<<Proj(S_1, S_A, Num(1)), Proj(S_2, S_A, Num(0))>>),
     Ok(<<Proj(S_1, S_A, Num(1)), Proj(S_1, S_A, None)>>)}

\* /billing/usage: a value is a float, held as its number of halves, or null
GroupDicts ==
    {<<[ws_id |-> S_1, value |-> Num(3)]>>,
     <<[ws_id |-> S_1, value |-> Num(1)], [ws_id |-> S_2, value |-> None]>>}

BillingItems ==
    {[billable_metric_name |-> n, groups |-> g] : n \in {S_m, S_empty}, g \in GroupDicts}

BillingResponses == {Fail(<<>>)} \cup {Ok(b) : b \in SeqsUpTo(BillingItems, 2)}

NoResponses ==
    [identity |-> Fail(NoIdentity), listing |-> Fail(<<>>), usage |-> <<>>,
     billing |-> Fail(<<>>)]

OrgConfigs == {[org_id |-> i, org_name |-> n] : i \in {S_empty, S_o}, n \in {S_empty, S_X}}

----------------------------------------------------------------------------
(* One organization task: fetch_org_rows call by call, then its caller *)

OrgInit ==
    /\ mode \in {"granular", "overview"}
    /\ level \in {"workspace", "project"}
    /\ direct \in BOOLEAN
    /\ org_entry \in OrgConfigs
    /\ cur_org_name = org_entry.org_name
    /\ opc = "start"
    /\ inflight = {}
    /\ calls = <<>>
    /\ responses = NoResponses
    /\ workspace_map = <<>>
    /\ wi = 0
    /\ org_rows = <<>>
    /\ returned = <<>>
    /\ mpc = IF direct THEN "fetch" ELSE "collect"
    /\ all_rows = <<>> /\ failures = <<>> /\ removed = 0 /\ report = <<>>
    /\ BuildIdle /\ PoolIdle

\* make_request: the call leaves, and the caller blocks until it is answered
Issue(path, ids, group_by) ==
    /\ calls' = Append(calls, [path |-> path, workspace_ids |-> ids, group_by |-> group_by])
    /\ inflight' = inflight \cup {Len(calls) + 1}

\* if not org_name: fetch_org_info(...)
CallIdentity ==
    /\ opc = "start"
    /\ cur_org_name = S_empty
    /\ Issue("/orgs/current", <<>>, "")
    /\ opc' = "ResolvingIdentity"
    /\ UNCHANGED <<direct, org_entry, cur_org_name, responses, workspace_map, wi,
                   org_rows, returned>>
    /\ UNCHANGED <<buildVars, argVars, poolVars, mainVars>>

IdentityReturn ==
    /\ opc = "ResolvingIdentity"
    /\ \E r \in IdentityResponses :
          /\ responses' = [responses EXCEPT !.identity = r]
          /\ IF r.ok
             THEN /\ cur_org_name' = ResolveName(org_entry.org_id, r.body)
                  /\ opc' = "resolved"
             ELSE /\ opc' = "Failed"
                  /\ UNCHANGED cur_org_name
    /\ inflight' = {}
    /\ UNCHANGED <<direct, org_entry, calls, workspace_map, wi, org_rows, returned>>
    /\ UNCHANGED <<buildVars, argVars, poolVars, mainVars>>

\* workspaces = fetch_workspaces(...)
CallListing ==
    /\ \/ opc = "resolved"
       \/ opc = "start" /\ cur_org_name # S_empty
    /\ Issue("/workspaces", <<>>, "")
    /\ opc' = "ListingWorkspaces"
    /\ UNCHANGED <<direct, org_entry, cur_org_name, responses, workspace_map, wi,
                   org_rows, returned>>
    /\ UNCHANGED <<buildVars, argVars, poolVars, mainVars>>

\* workspace_map = {...}; if not workspace_ids: return []
ListingReturn ==
    /\ opc = "ListingWorkspaces"
    /\ \E r \in ListingResponses :
          /\ responses' = [responses EXCEPT !.listing = r]
          /\ IF ~r.ok
             THEN /\ opc' = "Failed"
                  /\ UNCHANGED <<workspace_map, wi>>
             ELSE /\ workspace_map' = WorkspaceMap(r.body)
                  /\ IF WorkspaceMap(r.body) = <<>>
                     THEN opc' = "Done" /\ UNCHANGED wi
                     ELSE opc' = "listed" /\ wi' = 1
    /\ inflight' = {}
    /\ UNCHANGED <<direct, org_entry, cur_org_name, calls, org_rows, returned>>
    /\ UNCHANGED <<buildVars, argVars, poolVars, mainVars>>

\* CallUsage with one bulk granular call for all workspaces at project level too
CallUsageBulk ==
    /\ opc = "listed"
    /\ IF mode = "overview"
       THEN Issue("/orgs/current/billing/usage", <<>>, "")
       ELSE Issue("/orgs/current/billing/granular-usage", WorkspaceIds(workspace_map),
                  level)
    /\ opc' = "FetchingUsage"
    /\ UNCHANGED <<direct, org_entry, cur_org_name, responses, workspace_map, wi,
                   org_rows, returned>>
    /\ UNCHANGED <<buildVars, argVars, poolVars, mainVars>>

\* fetch_billing_usage(...), or fetch_granular_usage(...) for the i-th workspace
\* (project level) or for all of them (workspace level)
CallUsage ==
    /\ opc = "listed"
    /\ IF mode = "overview"
       THEN Issue("/orgs/current/billing/usage", <<>>, "")
       ELSE IF level = "project"
       THEN Issue("/orgs/current/billing/granular-usage", <<workspace_map[wi].id>>, "project")
       ELSE Issue("/orgs/current/billing/granular-usage", WorkspaceIds(workspace_map),
                  "workspace")
    /\ opc' = "FetchingUsage"
    /\ UNCHANGED <<direct, org_entry, cur_org_name, responses, workspace_map, wi,
                   org_rows, returned>>
    /\ UNCHANGED <<buildVars, argVars, poolVars, mainVars>>

UsageResponses ==
    IF mode = "overview" THEN BillingResponses
    ELSE IF level = "project" THEN ProjUsageResponses
    ELSE WsUsageResponses(workspace_map)

\* UsageReturn with a failed per-workspace call caught inside the loop: the
\* pipeline returns the rows built so far
UsageReturnPartial ==
    /\ opc = "FetchingUsage"
    /\ \E r \in UsageResponses :
          /\ responses' = IF mode = "overview" THEN [responses EXCEPT !.billing = r]
                          ELSE [responses EXCEPT !.usage = Append(@, r)]
          /\ IF ~r.ok
             THEN IF mode = "granular" /\ level = "project"
                  THEN /\ returned' = Sorted(org_rows, "project")
                       /\ opc' = "Done"
                       /\ UNCHANGED <<wi, org_rows>>
                  ELSE opc' = "Failed" /\ UNCHANGED <<wi, org_rows, returned>>
             ELSE IF mode = "overview"
             THEN /\ returned' = build_overview_rows(r.body, cur_org_name, workspace_map)
                  /\ opc' = "Done"
                  /\ UNCHANGED <<wi, org_rows>>
             ELSE IF level = "project"
             THEN LET b == build_project_rows(r.body, cur_org_name,
                                              workspace_map[wi].display_name)
                  IN IF b.raised
                     THEN opc' = "Failed" /\ UNCHANGED <<wi, org_rows, returned>>
                     ELSE /\ org_rows' = org_rows \o b.rows
                          /\ IF wi < Len(workspace_map)
                             THEN wi' = wi + 1 /\ opc' = "listed" /\ UNCHANGED returned
                             ELSE /\ returned' = Sorted(org_rows \o b.rows, "project")
                                  /\ opc' = "Done"
                                  /\ UNCHANGED wi
             ELSE LET b == build_workspace_rows(r.body, cur_org_name)
                  IN IF b.raised
                     THEN opc' = "Failed" /\ UNCHANGED <<wi, org_rows, returned>>
                     ELSE /\ returned' = Sorted(b.rows, "workspace")
                          /\ opc' = "Done"
                          /\ UNCHANGED <<wi, org_rows>>
    /\ inflight' = {}
    /\ UNCHANGED <<direct, org_entry, cur_org_name, calls, workspace_map>>
    /\ UNCHANGED <<buildVars, argVars, poolVars, mainVars>>

\* the usage call is answered: the rows are built, and the pipeline returns,
\* raises, or (project level) goes on to the next workspace
UsageReturn ==
    /\ opc = "FetchingUsage"
    /\ \E r \in UsageResponses :
          /\ responses' = IF mode = "overview" THEN [responses EXCEPT !.billing = r]
                          ELSE [responses EXCEPT !.usage = Append(@, r)]
          /\ IF ~r.ok
             THEN opc' = "Failed" /\ UNCHANGED <<wi, org_rows, returned>>
             ELSE IF mode = "overview"
             THEN /\ returned' = build_overview_rows(r.body, cur_org_name, workspace_map)
                  /\ opc' = "Done"
                  /\ UNCHANGED <<wi, org_rows>>
             ELSE IF level = "project"
             THEN LET b == build_project_rows(r.body, cur_org_name,
                                              workspace_map[wi].display_name)
                  IN IF b.raised
                     THEN opc' = "Failed" /\ UNCHANGED <<wi, org_rows, returned>>
                     ELSE /\ org_rows' = org_rows \o b.rows
                          /\ IF wi < Len(workspace_map)
                             THEN wi' = wi + 1 /\ opc' = "listed" /\ UNCHANGED returned
                             ELSE /\ returned' = Sorted(org_rows \o b.rows, "project")
                                  /\ opc' = "Done"
                                  /\ UNCHANGED wi
             ELSE LET b == build_workspace_rows(r.body, cur_org_name)
                  IN IF b.raised
                     THEN opc' = "Failed" /\ UNCHANGED <<wi, org_rows, returned>>
                     ELSE /\ returned' = Sorted(b.rows, "workspace")
                          /\ opc' = "Done"
                          /\ UNCHANGED <<wi, org_rows>>
    /\ inflight' = {}
    /\ UNCHANGED <<direct, org_entry, cur_org_name, calls, workspace_map>>
    /\ UNCHANGED <<buildVars, argVars, poolVars, mainVars>>

\* len(orgs) == 1: all_rows = fetch_org_rows(...); an exception leaves main
OrgReturnDirect ==
    /\ direct
    /\ mpc = "fetch"
    /\ opc \in {"Done", "Failed"}
    /\ IF opc = "Done"
       THEN all_rows' = returned /\ mpc' = "filter"
       ELSE mpc' = "aborted" /\ UNCHANGED all_rows
    /\ UNCHANGED <<failures, removed, report>>
    /\ UNCHANGED <<buildVars, argVars, orgVars, poolVars>>

\* the label main prints for a task
TaskLabel(o) == OrElse(o.org_name, o.org_id)

\* for future in as_completed(futures): try: all_rows.extend(future.result())
\* except Exception: print(f"[{org_name}] Failed: ...")
OrgCollect ==
    /\ ~direct
    /\ mpc = "collect"
    /\ opc \in {"Done", "Failed"}
    /\ IF opc = "Done"
       THEN all_rows' = all_rows \o returned /\ UNCHANGED failures
       ELSE failures' = Append(failures, TaskLabel(org_entry)) /\ UNCHANGED all_rows
    /\ mpc' = "collected"
    /\ UNCHANGED <<removed, report>>
    /\ UNCHANGED <<buildVars, argVars, orgVars, poolVars>>

OrgNext ==
    \/ CallIdentity \/ IdentityReturn
    \/ CallListing \/ ListingReturn
    \/ CallUsage \/ UsageReturn
    \/ OrgReturnDirect \/ OrgCollect
    \/ Filter \/ Dedup

SpecOrg == OrgInit /\ [][OrgNext]_vars

\* the call-by-call pipeline ends as fetch_org_rows run against the same responses
OrgAgrees ==
    opc \in {"Done", "Failed"} =>
        fetch_org_rows(org_entry, mode, level, responses)
            = IF opc = "Done" THEN Returned(returned) ELSE Raised

----------------------------------------------------------------------------
(* main: the organization list, the thread pool, the merge *)

\* orgs.json: two entries under the same name, then entries without a name
\* (their name is looked up) and entries under a second name, in turn
OrgsFile(n) ==
    [i \in 1..n |->
        IF i <= 2 THEN [org_id |-> S_o, org_name |-> S_X]
        ELSE IF i % 2 = 1 THEN [org_id |-> S_o, org_name |-> S_empty]
        ELSE [org_id |-> S_empty, org_name |-> S_Y]]

\* what the remote API answers one task: one workspace, and one time bucket of
\* v traces (v halves of a metric in overview mode) for it
TaskUsage(v) ==
    [usage |-> <<Ok(<<Record(S_1, S_A, S_1, S_A, Num(v))>>)>>,
     billing |-> Ok(<<[billable_metric_name |-> S_m,
                       groups |-> <<[ws_id |-> S_1, value |-> Num(2 * v)]>>]>>)]

TaskResponses ==
    {[identity |-> i, listing |-> w, usage |-> u.usage, billing |-> u.billing] :
         i \in {Fail(NoIdentity), Ok([id |-> S_o, display_name |-> S_Y])},
         w \in {Fail(<<>>), Ok(<<>>), Ok(<<[id |-> S_1, display_name |-> S_A]>>)},
         u \in {TaskUsage(v) : v \in 0..2}
               \cup {[usage |-> <<Fail(<<>>)>>, billing |-> Fail(<<>>)]}}

Tasks == 1..Len(orgs)

Init ==
    /\ mode \in {"granular", "overview"}
    /\ level \in IF mode = "overview" THEN {"workspace"} ELSE {"workspace", "project"}
    /\ \E n \in 1..MaxOrgs : orgs = OrgsFile(n)
    /\ workers \in 1..MaxWorkers
    /\ status = [i \in Tasks |-> "new"]
    /\ outcome = [i \in Tasks |-> Raised]
    /\ collected = {}
    /\ mpc = "fetch"
    /\ all_rows = <<>> /\ failures = <<>> /\ removed = 0 /\ report = <<>>
    /\ BuildIdle /\ OrgIdle

\* len(orgs) == 1: all_rows = fetch_org_rows(...), in main's own thread; an
\* exception of fetch_org_rows leaves main
DirectFetch ==
    /\ mpc = "fetch"
    /\ Len(orgs) = 1
    /\ \E resp \in TaskResponses :
          LET res == fetch_org_rows(orgs[1], mode, level, resp)
          IN /\ outcome' = [outcome EXCEPT ![1] = res]
             /\ IF res.ok
                THEN all_rows' = res.rows /\ mpc' = "filter"
                ELSE mpc' = "aborted" /\ UNCHANGED all_rows
    /\ status' = [status EXCEPT ![1] = "finished"]
    /\ UNCHANGED <<orgs, workers, collected, failures, removed, report>>
    /\ UNCHANGED <<buildVars, argVars, orgVars>>

\* for org in orgs: future = pool.submit(fetch_org_rows, ...), one org per step;
\* after the last one main enters the as_completed loop
Submit ==
    /\ mpc = "fetch"
    /\ Len(orgs) # 1
    /\ \E i \in Tasks :
          /\ status[i] = "new"
          /\ \A j \in Tasks : j < i => status[j] # "new"
          /\ status' = [status EXCEPT ![i] = "queued"]
          /\ mpc' = IF i = Len(orgs) THEN "collect" ELSE "fetch"
    /\ UNCHANGED <<orgs, workers, outcome, collected, all_rows, failures, removed, report>>
    /\ UNCHANGED <<buildVars, argVars, orgVars>>

\* a free worker takes the oldest queued task
Start(i) ==
    /\ status[i] = "queued"
    /\ \A j \in Tasks : j < i => status[j] # "queued"
    /\ Cardinality({j \in Tasks : status[j] = "running"}) < workers
    /\ status' = [status EXCEPT ![i] = "running"]
    /\ UNCHANGED <<orgs, workers, outcome, collected>>
    /\ UNCHANGED <<buildVars, argVars, orgVars, mainVars>>

\* the task's fetch_org_rows returns or raises; the future holds the outcome
Finish(i) ==
    /\ status[i] = "running"
    /\ \E resp \in TaskResponses :
          outcome' = [outcome EXCEPT ![i] = fetch_org_rows(orgs[i], mode, level, resp)]
    /\ status' = [status EXCEPT ![i] = "finished"]
    /\ UNCHANGED <<orgs, workers, collected>>
    /\ UNCHANGED <<buildVars, argVars, orgVars, mainVars>>

\* Collect without the try / except: the exception of a failed task leaves main
CollectUnguarded(i) ==
    /\ mpc = "collect"
    /\ status[i] = "finished"
    /\ i \notin collected
    /\ collected' = collected \cup {i}
    /\ IF outcome[i].ok
       THEN all_rows' = all_rows \o outcome[i].rows /\ UNCHANGED mpc
       ELSE mpc' = "aborted" /\ UNCHANGED all_rows
    /\ UNCHANGED <<failures, removed, report>>
    /\ UNCHANGED <<orgs, workers, status, outcome>>
    /\ UNCHANGED <<buildVars, argVars, orgVars>>

\* for future in as_completed(futures): try: all_rows.extend(future.result())
\* except Exception as e: print(f"[{org_name}] Failed: {e}")
Collect(i) ==
    /\ mpc = "collect"
    /\ status[i] = "finished"
    /\ i \notin collected
    /\ collected' = collected \cup {i}
    /\ IF outcome[i].ok
       THEN all_rows' = all_rows \o outcome[i].rows /\ UNCHANGED failures
       ELSE failures' = Append(failures, TaskLabel(orgs[i])) /\ UNCHANGED all_rows
    /\ UNCHANGED <<mpc, removed, report>>
    /\ UNCHANGED <<orgs, workers, status, outcome>>
    /\ UNCHANGED <<buildVars, argVars, orgVars>>

\* as_completed is exhausted, the pool shut down: all_rows.sort(key=...)
SortMerged ==
    /\ mpc = "collect"
    /\ collected = Tasks
    /\ all_rows' = Sorted(all_rows, "merge")
    /\ mpc' = "filter"
    /\ UNCHANGED <<failures, removed, report>>
    /\ UNCHANGED <<buildVars, argVars, orgVars, poolVars>>

Next ==
    \/ DirectFetch
    \/ Submit
    \/ \E i \in Tasks : Start(i)
    \/ \E i \in Tasks : Finish(i)
    \/ \E i \in Tasks : Collect(i)
    \/ SortMerged
    \/ Filter
    \/ Dedup

Spec == Init /\ [][Next]_vars

----------------------------------------------------------------------------
(* Claims about the row builders, checked under SpecBuild *)

\* the aggregation key and the label a record carries, as the spec words them
RecKey(record) ==
    IF builder = "workspace" THEN record.workspace_id
    ELSE <<workspace_name, record.project_id>>

RecLabel(record) ==
    IF builder = "workspace"
    THEN IF record.workspace_name # S_empty THEN record.workspace_name
         ELSE UnknownWorkspace(record.workspace_id)
    ELSE IF record.project_name # S_empty THEN record.project_name
         ELSE UnknownProject(record.project_id)

EntryLabel(e) == IF builder = "workspace" THEN e.ws_name ELSE e.proj_name
RowLabel(r) == IF builder = "workspace" THEN r.workspace ELSE r.project

\* the records consumed so far that carry the key
SeenWith(key) == {i \in 1..idx : RecKey(granular_usage[i]) = key}
FirstWith(key) == CHOOSE i \in SeenWith(key) : \A k \in SeenWith(key) : i <= k

RECURSIVE SumTraces(_)
SumTraces(I) ==
    IF I = {} THEN 0
    ELSE LET i == CHOOSE i \in I : TRUE
             v == granular_usage[i].traces
         IN (IF v.t = "num" THEN v.n ELSE 0) + SumTraces(I \ {i})

AllNumeric(I) == \A i \in I : granular_usage[i].traces.t \in {"num", "missing"}

\* C8: name stability (first-write-wins). At every point of the loop the label
\* stored for a key is the label of the first record seen for that key, whatever
\* the later records of the key carry, while the total of the key is the sum of
\* the measures consumed for it; the returned rows carry those labels and totals.
C8_NameStability ==
    /\ \A j \in 1..Len(aggregated) :
          LET key == aggregated[j].key
          IN /\ SeenWith(key) # {}
             /\ EntryLabel(aggregated[j]) = RecLabel(granular_usage[FirstWith(key)])
             /\ AllNumeric(SeenWith(key))
                    => aggregated[j].traces = Num(SumTraces(SeenWith(key)))
    /\ \A i \in 1..idx : Find(aggregated, RecKey(granular_usage[i])) # {}
    /\ bpc = "returned" =>
          /\ Len(built) = Len(aggregated)
          /\ \A j \in 1..Len(aggregated) :
                \E r \in 1..Len(built) :
                    /\ RowLabel(built[r]) = RecLabel(granular_usage[FirstWith(aggregated[j].key)])
                    /\ built[r].traces = aggregated[j].traces

\* a key whose first record carries a real label and a later one an empty label,
\* both consumed, and the row returned with the real label and the summed total
C8_Witness ==
    /\ bpc = "returned"
    /\ \E i, k \in 1..idx :
          /\ i < k
          /\ RecKey(granular_usage[i]) = RecKey(granular_usage[k])
          /\ FirstWith(RecKey(granular_usage[i])) = i
          /\ RecLabel(granular_usage[i]) = S_A
          /\ granular_usage[k].workspace_name = S_empty
          /\ granular_usage[k].project_name = S_empty
          /\ granular_usage[i].traces = Num(1)
          /\ granular_usage[k].traces = Num(1)
          /\ \E r \in 1..Len(built) : RowLabel(built[r]) = S_A /\ built[r].traces = Num(2)

\* C9: a missing or null measure degrades to zero and never raises: the builder
\* does not raise, a record whose traces is absent or null adds 0 to the total
\* of its key, and every returned row's traces is a number.
C9_NullMeasureIsZero ==
    /\ bpc # "raised"
    /\ \A j \in 1..Len(aggregated) :
          aggregated[j].traces = Num(SumTraces(SeenWith(aggregated[j].key)))
    /\ bpc = "returned" => \A r \in 1..Len(built) : built[r].traces.t = "num"

----------------------------------------------------------------------------
(* Claims about one organization task, checked under SpecOrg *)

Answered(path) == \E k \in 1..Len(calls) : calls[k].path = path /\ k \notin inflight

\* the answered outbound calls that failed
FailedCalls ==
    (IF Answered("/orgs/current") /\ ~responses.identity.ok THEN 1 ELSE 0)
    + (IF Answered("/workspaces") /\ ~responses.listing.ok THEN 1 ELSE 0)
    + (IF Answered("/orgs/current/billing/usage") /\ ~responses.billing.ok THEN 1 ELSE 0)
    + Cardinality({j \in 1..Len(responses.usage) : ~responses.usage[j].ok})

\* C5: no partial rows from a failed organization. Once an outbound call of the
\* pipeline has failed (identity lookup, listing, the bulk usage call or the
\* usage call of the k-th workspace), the task is failed with that one error,
\* issues nothing more, returns no rows - the rows built for workspaces 1..k-1
\* included - and nothing of it reaches main's rows or the report; in the pool
\* exactly one failure line is printed for it.
C5_NoPartialRows ==
    FailedCalls > 0 =>
        /\ FailedCalls = 1
        /\ opc = "Failed"
        /\ inflight = {}
        /\ returned = <<>>
        /\ all_rows = <<>>
        /\ report = <<>>
        /\ mpc \in {"fetch", "aborted", "collect", "collected"}
        /\ Len(failures) = IF mpc = "collected" THEN 1 ELSE 0

\* the usage call of the second workspace failed after rows were built for the
\* first, and the caller has dealt with the task
C5_Witness ==
    /\ mode = "granular" /\ level = "project"
    /\ opc = "Failed"
    /\ wi = 2
    /\ Len(responses.usage) = 2 /\ ~responses.usage[2].ok
    /\ org_rows # <<>>
    /\ mpc = "collected"
    /\ Len(failures) = 1

UsagePaths == {"/orgs/current/billing/usage", "/orgs/current/billing/granular-usage"}
CallsTo(paths) == {k \in 1..Len(calls) : calls[k].path \in paths}

\* the ids of the workspaces the listing returned
ListedIds == {responses.listing.body[j].id : j \in 1..Len(responses.listing.body)}

\* C10: strict step order within one organization. At most one outbound call is
\* in flight; the identity lookup is issued iff no org name was supplied, and
\* first; then the listing; usage calls only after the listing returned
\* non-empty; an empty listing ends the pipeline with zero rows and no usage
\* call; at project level the usage calls go one workspace at a time, each after
\* the previous one was answered, never twice for a workspace, and a pipeline
\* that returns has issued exactly one per listed workspace.
C10_StepOrder ==
    /\ Cardinality(inflight) <= 1
    /\ inflight \subseteq {Len(calls)}
    /\ opc # "start" =>
          /\ (CallsTo({"/orgs/current"}) # {}) <=> (org_entry.org_name = S_empty)
          /\ CallsTo({"/orgs/current"}) \subseteq {1}
          /\ CallsTo({"/workspaces"}) \subseteq {Cardinality(CallsTo({"/orgs/current"})) + 1}
    /\ CallsTo(UsagePaths) # {} =>
          /\ Answered("/workspaces")
          /\ responses.listing.ok
          /\ responses.listing.body # <<>>
          /\ \A k \in CallsTo(UsagePaths) : \A j \in CallsTo({"/workspaces"}) : j < k
    /\ (Answered("/workspaces") /\ responses.listing.ok /\ responses.listing.body = <<>>) =>
          /\ opc = "Done"
          /\ returned = <<>>
          /\ CallsTo(UsagePaths) = {}
    /\ (mode = "granular" /\ level = "project") =>
          /\ \A k \in CallsTo(UsagePaths) :
                /\ calls[k].path = "/orgs/current/billing/granular-usage"
                /\ Len(calls[k].workspace_ids) = 1
                /\ calls[k].workspace_ids[1] \in ListedIds
                /\ \A j \in CallsTo(UsagePaths) :
                      calls[j].workspace_ids = calls[k].workspace_ids => j = k
          /\ Len(responses.usage) = Cardinality(CallsTo(UsagePaths)) - Cardinality(inflight \cap CallsTo(UsagePaths))
          /\ (opc = "Done" /\ Answered("/workspaces")) =>
                \A id \in ListedIds :
                    Cardinality({k \in CallsTo(UsagePaths) : calls[k].workspace_ids = <<id>>}) = 1
    /\ ~(mode = "granular" /\ level = "project") =>
          Cardinality(CallsTo(UsagePaths)) <= 1

\* a project-level pipeline that resolved its name, listed two workspaces and
\* returned after one usage call for each
C10_Witness ==
    /\ mode = "granular" /\ level = "project"
    /\ opc = "Done"
    /\ org_entry.org_name = S_empty
    /\ Cardinality(ListedIds) = 2
    /\ Len(calls) = 4
    /\ calls[3].workspace_ids # calls[4].workspace_ids

\* the usage records the pipeline received: <<call, position>> pairs
InputRecords ==
    {<<c, i>> \in (1..Len(responses.usage)) \X (1..2) :
         responses.usage[c].ok /\ i <= Len(responses.usage[c].body)}

InputRecord(p) == responses.usage[p[1]].body[p[2]]

\* the aggregation key of a record within its call, by level
InputAggKey(p) ==
    IF level = "project" THEN InputRecord(p).project_id ELSE InputRecord(p).workspace_id

\* the first record of the same call with the same aggregation key
InputFirst(p) ==
    LET same == {i \in 1..p[2] : InputAggKey(<<p[1], i>>) = InputAggKey(p)}
    IN <<p[1], CHOOSE i \in same : \A k \in same : i <= k>>

\* the output key (org, workspace[, project]) a record maps to
InputOutKey(p) ==
    LET first == InputRecord(InputFirst(p))
    IN IF level = "project"
       THEN <<cur_org_name, workspace_map[p[1]].display_name,
              IF first.project_name # S_empty THEN first.project_name
              ELSE UnknownProject(first.project_id)>>
       ELSE <<cur_org_name,
              IF first.workspace_name # S_empty THEN first.workspace_name
              ELSE UnknownWorkspace(first.workspace_id)>>

RECURSIVE SumInput(_)
SumInput(P) ==
    IF P = {} THEN 0
    ELSE LET p == CHOOSE p \in P : TRUE
             v == InputRecord(p).traces
         IN (IF v.t = "num" THEN v.n ELSE 0) + SumInput(P \ {p})

RowOutKey(r) ==
    IF level = "project" THEN <<r.org, r.workspace, r.project>> ELSE <<r.org, r.workspace>>

RECURSIVE SumRows(_, _)
SumRows(rows, key) ==
    IF rows = <<>> THEN 0
    ELSE (IF RowOutKey(Head(rows)) = key /\ Head(rows).traces.t = "num"
          THEN Head(rows).traces.n ELSE 0)
         + SumRows(Tail(rows), key)

\* C3: sum invariant. In the final report of a workspace-level or project-level
\* run, for every output key the values of the rows carrying the key add up to
\* the traces of all the input records that map to the key.
C3_SumInvariant ==
    (mode = "granular" /\ mpc = "output") =>
        \A q \in 1..Len(report) :
            SumRows(report, RowOutKey(report[q]))
                = SumInput({p \in InputRecords : InputOutKey(p) = RowOutKey(report[q])})

\* the label a row of workspace ws carries: the one of the first usage record
\* that references it, or the listing's name or the placeholder when none does
RefsTo(ws) ==
    {i \in 1..Len(responses.usage[1].body) : responses.usage[1].body[i].workspace_id = ws.id}

HasRowFor(ws) ==
    IF RefsTo(ws) = {}
    THEN \E q \in 1..Len(returned) :
            /\ returned[q].workspace \in {ws.display_name, UnknownWorkspace(ws.id)}
            /\ returned[q].traces = Num(0)
    ELSE LET first == responses.usage[1].body[CHOOSE i \in RefsTo(ws) :
                                                  \A k \in RefsTo(ws) : i <= k]
         IN \E q \in 1..Len(returned) :
                returned[q].workspace
                    = IF first.workspace_name # S_empty THEN first.workspace_name
                      ELSE UnknownWorkspace(first.workspace_id)

\* C4: zero-fill completeness. At workspace level every workspace of the
\* WorkspaceIndex has a row among the rows fetch_org_rows returns, with value 0
\* when no usage record referenced it.
C4_ZeroFill ==
    (mode = "granular" /\ level = "workspace" /\ opc = "Done" /\ workspace_map # <<>>) =>
        \A j \in 1..Len(workspace_map) : HasRowFor(workspace_map[j])

----------------------------------------------------------------------------
(* Claims about main, checked under Spec *)

Count(seq, x) == Cardinality({j \in 1..Len(seq) : seq[j] = x})

RECURSIVE CountIn(_, _)
CountIn(S, x) ==
    IF S = {} THEN 0
    ELSE LET i == CHOOSE i \in S : TRUE
         IN Count(outcome[i].rows, x) + CountIn(S \ {i}, x)

Succeeded(S) == {i \in S : outcome[i].ok}
Failed(S) == {i \in S : ~outcome[i].ok}

\* rows holds exactly the rows the succeeded tasks of S returned, and no other
ExactlyRowsOf(rows, S) ==
    \A x \in {rows[j] : j \in 1..Len(rows)}
             \cup UNION {{outcome[i].rows[j] : j \in 1..Len(outcome[i].rows)} : i \in S} :
        Count(rows, x) = CountIn(Succeeded(S), x)

\* failures holds one line per failed task of S, under the task's name or id
OneFailureEach(S) ==
    /\ Len(failures) = Cardinality(Failed(S))
    /\ \A i \in Failed(S) :
          Count(failures, IF orgs[i].org_name # S_empty THEN orgs[i].org_name
                          ELSE orgs[i].org_id)
              = Cardinality({j \in Failed(S) :
                    (IF orgs[j].org_name # S_empty THEN orgs[j].org_name ELSE orgs[j].org_id)
                    = (IF orgs[i].org_name # S_empty THEN orgs[i].org_name ELSE orgs[i].org_id)})

\* C1: failure isolation in the multi-org run. Whatever tasks raise, main is
\* never left by their exception, every task still runs to its own outcome and is
\* collected, the merged rows are exactly the rows of the tasks that succeeded,
\* and one failure is recorded per failed task under its name or id.
C1_FailureIsolation ==
    Len(orgs) >= 2 =>
        /\ mpc # "aborted"
        /\ \A i \in collected : status[i] = "finished"
        /\ mpc = "collect" =>
              /\ ExactlyRowsOf(all_rows, collected)
              /\ OneFailureEach(collected)
        /\ mpc \in {"filter", "dedup", "output", "nousage"} =>
              /\ collected = Tasks
              /\ OneFailureEach(Tasks)
        /\ mpc = "filter" => ExactlyRowsOf(all_rows, Tasks)

\* three tasks, the second raised, the first and the third returned rows, and
\* the merge is done
C1_Witness ==
    /\ Len(orgs) = 3
    /\ mpc = "filter"
    /\ ~outcome[2].ok
    /\ outcome[1].ok /\ outcome[1].rows # <<>>
    /\ outcome[3].ok /\ outcome[3].rows # <<>>
    /\ Len(all_rows) = 2
    /\ Len(failures) = 1

\* the key tuple of a report row, by mode and level
KeyTuple(r) ==
    IF mode = "overview" THEN <<r.org, r.workspace, r.metric>>
    ELSE IF level = "project" THEN <<r.org, r.workspace, r.project>>
    ELSE <<r.org, r.workspace>>

\* C2: key uniqueness. In every report main hands over, single-org or
\* multi-org, whatever the mode and level, no two rows share the key tuple.
C2_KeyUniqueness ==
    mpc = "output" =>
        /\ report = all_rows
        /\ \A p, q \in 1..Len(report) : p # q => KeyTuple(report[p]) # KeyTuple(report[q])

\* a report from which rows that shared a key with different values were removed
C2_Witness ==
    /\ mpc = "output"
    /\ removed > 0
    /\ \E i, j \in Tasks :
          /\ i # j /\ outcome[i].ok /\ outcome[j].ok
          /\ \E a \in 1..Len(outcome[i].rows), b \in 1..Len(outcome[j].rows) :
                /\ KeyTuple(outcome[i].rows[a]) = KeyTuple(outcome[j].rows[b])
                /\ outcome[i].rows[a] # outcome[j].rows[b]

\* the rows of the succeeded tasks in submission order
RECURSIVE InSubmissionOrder(_)
InSubmissionOrder(n) ==
    IF n = 0 THEN <<>>
    ELSE InSubmissionOrder(n - 1) \o (IF outcome[n].ok THEN outcome[n].rows ELSE <<>>)

\* the report the scheduler path makes of rows merged in the given order
SchedulerReport(rows) == Deduped(DropZero(Sorted(rows, "merge"), mode), mode, level)

\* C6: the merge does not depend on the completion order. For fixed task
\* outcomes every completion order ends in the same report, which is then the
\* report of the order of submission.
C6_OrderIndependence ==
    (Len(orgs) >= 2 /\ mpc \in {"output", "nousage"}) =>
        report = SchedulerReport(InSubmissionOrder(Len(orgs)))

\* C7: N == 1 equivalence. For a single task main ends as the scheduler path
\* would for that task: the same report when it succeeds; when it fails, the
\* failure recorded for the organization and the run finished with the (empty)
\* report of the successful subset, not left by the exception.
C7_SingleOrgEquivalence ==
    (Len(orgs) = 1 /\ mpc \in {"output", "nousage", "aborted"}) =>
        /\ mpc # "aborted"
        /\ report = SchedulerReport(InSubmissionOrder(1))
        /\ failures = IF outcome[1].ok THEN <<>> ELSE <<TaskLabel(orgs[1])>>

====
